---- MODULE Spec2Model ----
(***************************************************************************)
(* Model of the append-only hash accumulator of src/src/lib.rs:            *)
(* SimpleAccumulator (length k, state slots s), SimpleProver (accumulator  *)
(* plus the element map and the root map), the BitMath helpers of          *)
(* src/src/utils.rs, and the recursive prove_from / verify pair.           *)
(***************************************************************************)
EXTENDS Integers, Sequences, FiniteSets, TLC

VARIABLES
    digest,     \* the Digest type parameter D the structs are instantiated with
    isProver,   \* TRUE: the object is a SimpleProver, FALSE: a bare SimpleAccumulator
    k,          \* SimpleAccumulator.k
    s,          \* SimpleAccumulator.s, slot index -> digest
    elements,   \* SimpleProver.elements (BTreeMap index -> element)
    r,          \* SimpleProver.r (BTreeMap index -> root)
    origin,     \* observer: len() of the accumulator when the prover was constructed
    xs,         \* observer: the elements passed to insert, in order
    rs,         \* observer: the roots returned by insert, in order
    res         \* observer: the last call and what it returned

vars == <<digest, isProver, k, s, elements, r, origin, xs, rs, res>>

----------------------------------------------------------------------------
(* Bounds *)

MaxK == 4        \* inserts in Spec
DeepK == 8       \* inserts in SpecDeep
WordBits == 10   \* width the 256-bit index words are modelled at
WeakRange == 3   \* number of values of the colliding digest
ReadK == 3       \* inserts in SpecReads

(* Program constants *)

StateSlots == 256

U256Bits == 256

----------------------------------------------------------------------------
(* Digests.  A digest value is a tuple: <<n>> for a 32-byte value that is  *)
(* not known to be a hash output, <<x, a, b>> for the output of a          *)
(* collision-free digest over x || a || b.                                 *)

Zero == <<0>>

None == <<>>

Elems == {Zero, <<1>>}

(* the root of the previous index not chained into the digest *)
Hash_drops_prev(d, x, a, b) ==
    IF d = "free"
    THEN <<x, b>>
    ELSE <<(x[1] + 3 * b[1] + 1) % WeakRange>>

Hash(d, x, a, b) ==
    IF d = "free"
    THEN <<x, a, b>>
    ELSE <<(x[1] + 2 * a[1] + 3 * b[1] + 1) % WeakRange>>

----------------------------------------------------------------------------
(* U256 arithmetic: subtraction panics on underflow.                       *)

Overflow == -1

u256_sub(a, b) == IF b > a THEN Overflow ELSE a - b

BitNot(a) == (2 ^ WordBits - 1) - a

RECURSIVE BitAnd(_, _)
BitAnd(a, b) ==
    IF a = 0 \/ b = 0
    THEN 0
    ELSE (a % 2) * (b % 2) + 2 * BitAnd(a \div 2, b \div 2)

RECURSIVE trailing_zeros(_)
trailing_zeros(n) ==
    IF n = 0 THEN U256Bits
    ELSE IF n % 2 = 1 THEN 0
    ELSE 1 + trailing_zeros(n \div 2)

highest_divisor_power_of_2(n) ==
    LET m == u256_sub(n, 1)
    IN  IF m = Overflow THEN Overflow ELSE BitAnd(n, BitNot(m))

(* the previous index in place of the index with the lowest bit cleared *)
pred_decrement(n) == u256_sub(n, 1)

(* the index halved in place of the index with the lowest bit cleared *)
pred_halved(n) == n \div 2

pred(n) ==
    LET h == highest_divisor_power_of_2(n)
    IN  IF h = Overflow THEN Overflow ELSE u256_sub(n, h)

----------------------------------------------------------------------------
(* Accumulator *)

EmptyState == [p \in 0 .. StateSlots - 1 |-> Zero]

state_get(st, p) == IF p \in DOMAIN st THEN st[p] ELSE None

(* index zero looked up in the slots like any other index *)
get_state_no_zero(st, i) == state_get(st, trailing_zeros(i))

get_state(st, i) ==
    IF i = 0 THEN Zero ELSE state_get(st, trailing_zeros(i))

(* the slot array indexed by the length itself *)
get_root_unmapped(st, len) == state_get(st, len)

get_root(st, len) == get_state(st, len)

state_len(st) == Cardinality(DOMAIN st)

(* the slot of the index itself in place of the slot of its trailing zeros *)
set_state_at_index(st, i, element) ==
    [st EXCEPT ![i] = element]

set_state_at(st, i, element) ==
    [st EXCEPT ![trailing_zeros(i)] = element]

(* the state looked up at lowbit(k) in place of k - lowbit(k) *)
insert_lowbit_slot(d, len, st, element) ==
    LET k1     == len + 1
        prev   == get_state(st, k1 - 1)
        predr  == get_state(st, highest_divisor_power_of_2(k1))
        result == Hash(d, element, prev, predr)
    IN  IF prev = None \/ predr = None
        THEN [k |-> k1, s |-> st, result |-> None, panic |-> TRUE]
        ELSE [k |-> k1, s |-> set_state_at(st, k1, result),
              result |-> result, panic |-> FALSE]

(* the zero digest in place of the current root *)
insert_unchained(d, len, st, element) ==
    LET k1     == len + 1
        prev   == Zero
        predr  == get_state(st, u256_sub(k1, highest_divisor_power_of_2(k1)))
        result == Hash(d, element, prev, predr)
    IN  IF prev = None \/ predr = None
        THEN [k |-> k1, s |-> st, result |-> None, panic |-> TRUE]
        ELSE [k |-> k1, s |-> set_state_at(st, k1, result),
              result |-> result, panic |-> FALSE]

(* SimpleAccumulator::insert: the new k, the new s and the returned root;  *)
(* panic is TRUE when one of the two unwraps fails.                         *)
insert(d, len, st, element) ==
    LET k1     == len + 1
        prev   == get_state(st, k1 - 1)
        predr  == get_state(st, u256_sub(k1, highest_divisor_power_of_2(k1)))
        result == Hash(d, element, prev, predr)
    IN  IF prev = None \/ predr = None
        THEN [k |-> k1, s |-> st, result |-> None, panic |-> TRUE]
        ELSE [k |-> k1, s |-> set_state_at(st, k1, result),
              result |-> result, panic |-> FALSE]

(* Accumulator::from_elements: the default accumulator after one insert   *)
(* per element, in order                                                   *)
RECURSIVE from_elements(_, _)
from_elements(d, seq) ==
    IF seq = <<>>
    THEN [k |-> 0, s |-> EmptyState]
    ELSE LET acc == from_elements(d, SubSeq(seq, 1, Len(seq) - 1))
             a   == insert(d, acc.k, acc.s, seq[Len(seq)])
         IN  [k |-> a.k, s |-> a.s]

----------------------------------------------------------------------------
(* Results *)

Ok(w) == [tag |-> "Ok", err |-> "", idx |-> 0, wit |-> w]

Err(e) == [tag |-> "Err", err |-> e, idx |-> 0, wit |-> <<>>]

MissingHistory(n) == [tag |-> "Err", err |-> "MissingHistory", idx |-> n, wit |-> <<>>]

Panic == [tag |-> "Panic", err |-> "", idx |-> 0, wit |-> <<>>]

Returned(v) == [tag |-> "Ok", err |-> "", idx |-> 0, wit |-> <<v>>]

----------------------------------------------------------------------------
(* Prover *)

RECURSIVE prove_from(_, _, _, _)
(* the root of the previous index left out of the triple *)
prove_from_pair(X, R, i, j) ==
    IF j > i THEN Err("OutOfBounds")
    ELSE
    LET pred_i == pred(i)
    IN  IF pred_i = Overflow THEN Panic
        ELSE IF i \notin DOMAIN X THEN MissingHistory(i)
        ELSE IF (i - 1) \notin DOMAIN R THEN MissingHistory(i - 1)
        ELSE IF pred_i \notin DOMAIN R THEN MissingHistory(pred_i)
        ELSE
        LET witness == <<X[i], R[pred_i]>>
        IN  IF i > j
            THEN LET rest == IF pred_i >= j
                             THEN prove_from(X, R, pred_i, j)
                             ELSE prove_from(X, R, i - 1, j)
                 IN  IF rest.tag = "Ok" THEN Ok(witness \o rest.wit) ELSE rest
            ELSE Ok(witness)

(* the index before the missing one reported *)
prove_from_index_before(X, R, i, j) ==
    IF j > i THEN Err("OutOfBounds")
    ELSE
    LET pred_i == pred(i)
    IN  IF pred_i = Overflow THEN Panic
        ELSE IF i \notin DOMAIN X THEN MissingHistory(i - 1)
        ELSE IF (i - 1) \notin DOMAIN R THEN MissingHistory(i - 1)
        ELSE IF pred_i \notin DOMAIN R THEN MissingHistory(pred_i)
        ELSE
        LET witness == <<X[i], R[i - 1], R[pred_i]>>
        IN  IF i > j
            THEN LET rest == IF pred_i >= j
                             THEN prove_from(X, R, pred_i, j)
                             ELSE prove_from(X, R, i - 1, j)
                 IN  IF rest.tag = "Ok" THEN Ok(witness \o rest.wit) ELSE rest
            ELSE Ok(witness)

(* the path taken one index at a time *)
prove_from_linear(X, R, i, j) ==
    IF j > i THEN Err("OutOfBounds")
    ELSE
    LET pred_i == pred(i)
    IN  IF pred_i = Overflow THEN Panic
        ELSE IF i \notin DOMAIN X THEN MissingHistory(i)
        ELSE IF (i - 1) \notin DOMAIN R THEN MissingHistory(i - 1)
        ELSE IF pred_i \notin DOMAIN R THEN MissingHistory(pred_i)
        ELSE
        LET witness == <<X[i], R[i - 1], R[pred_i]>>
        IN  IF i > j
            THEN LET rest == prove_from(X, R, i - 1, j)
                 IN  IF rest.tag = "Ok" THEN Ok(witness \o rest.wit) ELSE rest
            ELSE Ok(witness)

prove_from(X, R, i, j) ==
    IF j > i THEN Err("OutOfBounds")
    ELSE
    LET pred_i == pred(i)
    IN  IF pred_i = Overflow THEN Panic
        ELSE IF i \notin DOMAIN X THEN MissingHistory(i)
        ELSE IF (i - 1) \notin DOMAIN R THEN MissingHistory(i - 1)
        ELSE IF pred_i \notin DOMAIN R THEN MissingHistory(pred_i)
        ELSE
        LET witness == <<X[i], R[i - 1], R[pred_i]>>
        IN  IF i > j
            THEN LET rest == IF pred_i >= j
                             THEN prove_from(X, R, pred_i, j)
                             ELSE prove_from(X, R, i - 1, j)
                 IN  IF rest.tag = "Ok" THEN Ok(witness \o rest.wit) ELSE rest
            ELSE Ok(witness)

prove(st, X, R, j) == prove_from(X, R, state_len(st), j)

RECURSIVE verify(_, _, _, _, _, _)
(* the triple not hashed against the root *)
verify_unhashed(d, r_i, i, j, witness, element) ==
    IF ~(j <= i) THEN Panic
    ELSE IF Len(witness) < 3 THEN Err("WitnessTooShort")
    ELSE
    LET x_i    == witness[1]
        r_prev == witness[2]
        r_pred == witness[3]
        rest   == SubSeq(witness, 4, Len(witness))
    IN  IF i = j
        THEN IF x_i = element THEN Ok(<<>>) ELSE Err("XiMismatch")
        ELSE IF pred(i) = Overflow THEN Panic
        ELSE IF pred(i) >= j
        THEN verify(d, r_pred, pred(i), j, rest, element)
        ELSE verify(d, r_prev, i - 1, j, rest, element)

(* the element not compared at the target index *)
verify_any_element(d, r_i, i, j, witness, element) ==
    IF ~(j <= i) THEN Panic
    ELSE IF Len(witness) < 3 THEN Err("WitnessTooShort")
    ELSE
    LET x_i    == witness[1]
        r_prev == witness[2]
        r_pred == witness[3]
        rest   == SubSeq(witness, 4, Len(witness))
    IN  IF Hash(d, x_i, r_prev, r_pred) # r_i THEN Err("RiMismatch")
        ELSE IF i = j
        THEN Ok(<<>>)
        ELSE IF pred(i) = Overflow THEN Panic
        ELSE IF pred(i) >= j
        THEN verify(d, r_pred, pred(i), j, rest, element)
        ELSE verify(d, r_prev, i - 1, j, rest, element)

(* a witness that has run out accepted *)
verify_exhausted_ok(d, r_i, i, j, witness, element) ==
    IF ~(j <= i) THEN Panic
    ELSE IF Len(witness) = 0 THEN Ok(<<>>)
    ELSE IF Len(witness) < 3 THEN Err("WitnessTooShort")
    ELSE
    LET x_i    == witness[1]
        r_prev == witness[2]
        r_pred == witness[3]
        rest   == SubSeq(witness, 4, Len(witness))
    IN  IF Hash(d, x_i, r_prev, r_pred) # r_i THEN Err("RiMismatch")
        ELSE IF i = j
        THEN IF x_i = element THEN Ok(<<>>) ELSE Err("XiMismatch")
        ELSE IF pred(i) = Overflow THEN Panic
        ELSE IF pred(i) >= j
        THEN verify(d, r_pred, pred(i), j, rest, element)
        ELSE verify(d, r_prev, i - 1, j, rest, element)

(* a witness with elements left over at the target index refused *)
verify_whole_witness(d, r_i, i, j, witness, element) ==
    IF ~(j <= i) THEN Panic
    ELSE IF Len(witness) < 3 THEN Err("WitnessTooShort")
    ELSE
    LET x_i    == witness[1]
        r_prev == witness[2]
        r_pred == witness[3]
        rest   == SubSeq(witness, 4, Len(witness))
    IN  IF Hash(d, x_i, r_prev, r_pred) # r_i THEN Err("RiMismatch")
        ELSE IF i = j
        THEN IF rest # <<>> THEN Err("RiMismatch")
             ELSE IF x_i = element THEN Ok(<<>>) ELSE Err("XiMismatch")
        ELSE IF pred(i) = Overflow THEN Panic
        ELSE IF pred(i) >= j
        THEN verify(d, r_pred, pred(i), j, rest, element)
        ELSE verify(d, r_prev, i - 1, j, rest, element)

(* the root of the previous index followed at every level *)
verify_linear(d, r_i, i, j, witness, element) ==
    IF ~(j <= i) THEN Panic
    ELSE IF Len(witness) < 3 THEN Err("WitnessTooShort")
    ELSE
    LET x_i    == witness[1]
        r_prev == witness[2]
        r_pred == witness[3]
        rest   == SubSeq(witness, 4, Len(witness))
    IN  IF Hash(d, x_i, r_prev, r_pred) # r_i THEN Err("RiMismatch")
        ELSE IF i = j
        THEN IF x_i = element THEN Ok(<<>>) ELSE Err("XiMismatch")
        ELSE IF pred(i) = Overflow THEN Panic
        ELSE verify(d, r_prev, i - 1, j, rest, element)

verify(d, r_i, i, j, witness, element) ==
    IF ~(j <= i) THEN Panic
    ELSE IF Len(witness) < 3 THEN Err("WitnessTooShort")
    ELSE
    LET x_i    == witness[1]
        r_prev == witness[2]
        r_pred == witness[3]
        rest   == SubSeq(witness, 4, Len(witness))
    IN  IF Hash(d, x_i, r_prev, r_pred) # r_i THEN Err("RiMismatch")
        ELSE IF i = j
        THEN IF x_i = element THEN Ok(<<>>) ELSE Err("XiMismatch")
        ELSE IF pred(i) = Overflow THEN Panic
        ELSE IF pred(i) >= j
        THEN verify(d, r_pred, pred(i), j, rest, element)
        ELSE verify(d, r_prev, i - 1, j, rest, element)

(* The index argument of each nested call of verify, the outermost call   *)
(* first; prove_from nests on the same two branches.  Overflow ends the    *)
(* sequence where the assert fails or a subtraction overflows.             *)
RECURSIVE descent(_, _)
descent(i, j) ==
    IF ~(j <= i) THEN <<Overflow>>
    ELSE IF i = j THEN <<i>>
    ELSE IF pred(i) = Overflow \/ u256_sub(i, 1) = Overflow THEN <<i, Overflow>>
    ELSE IF pred(i) >= j
    THEN <<i>> \o descent(pred(i), j)
    ELSE <<i>> \o descent(i - 1, j)

----------------------------------------------------------------------------
(* The calls recorded in res *)

Call(op, root, i, j, w, x, out) ==
    [op |-> op, root |-> root, i |-> i, j |-> j, w |-> w, x |-> x, out |-> out]

NoCall == Call("none", Zero, 0, 0, <<>>, Zero, Ok(<<>>))

Init ==
    /\ digest \in {"free", "weak"}
    /\ isProver \in BOOLEAN
    /\ k = 0
    /\ s = EmptyState
    /\ elements = IF isProver THEN (0 :> Zero) ELSE <<>>
    /\ r = IF isProver THEN (0 :> Zero) ELSE <<>>
    /\ origin = 0
    /\ xs = <<>>
    /\ rs = <<>>
    /\ res = NoCall

(* SimpleAccumulator::insert on a bare accumulator *)
AccInsert(bound, x) ==
    /\ ~isProver
    /\ k < bound
    /\ LET a == insert(digest, k, s, x)
       IN  /\ k' = a.k
           /\ s' = a.s
           /\ xs' = Append(xs, x)
           /\ rs' = Append(rs, a.result)
           /\ res' = Call("insert", Zero, 0, 0, <<>>, x,
                          IF a.panic THEN Panic ELSE Returned(a.result))
    /\ UNCHANGED <<digest, isProver, elements, r, origin>>

(* impl From<SimpleAccumulator<D>> for SimpleProver<D> *)
ProverFrom ==
    /\ ~isProver
    /\ isProver' = TRUE
    /\ elements' = (0 :> Zero)
    /\ r' = (0 :> Zero)
    /\ origin' = k
    /\ res' = Call("from", Zero, 0, 0, <<>>, Zero, Ok(<<>>))
    /\ UNCHANGED <<digest, k, s, xs, rs>>

(* SimpleProver::insert *)
ProverInsert(bound, x) ==
    /\ isProver
    /\ k < bound
    /\ LET a == insert(digest, k, s, x)
       IN  /\ k' = a.k
           /\ s' = a.s
           /\ elements' = IF a.panic THEN elements ELSE (a.k :> x) @@ elements
           /\ r' = IF a.panic THEN r ELSE (a.k :> a.result) @@ r
           /\ xs' = Append(xs, x)
           /\ rs' = Append(rs, a.result)
           /\ res' = Call("insert", Zero, 0, 0, <<>>, x,
                          IF a.panic THEN Panic ELSE Returned(a.result))
    /\ UNCHANGED <<digest, isProver, origin>>

(* res holds one query per state of the object: the queries take &self (or  *)
(* no self) and change nothing, so a query made after another query        *)
(* returns what it returns when made first.                                *)
Query == isProver /\ res.op \in {"none", "from", "insert"}

(* Prover::prove_from *)
ProveFrom(i, j) ==
    /\ res' = Call("prove_from", Zero, i, j, <<>>, Zero, prove_from(elements, r, i, j))
    /\ UNCHANGED <<digest, isProver, k, s, elements, r, origin, xs, rs>>

(* Prover::prove *)
Prove(j) ==
    /\ res' = Call("prove", Zero, 0, j, <<>>, Zero, prove(s, elements, r, j))
    /\ UNCHANGED <<digest, isProver, k, s, elements, r, origin, xs, rs>>

(* Prover::verify *)
Verify(root, i, j, w, x) ==
    /\ res' = Call("verify", root, i, j, w, x, verify(digest, root, i, j, w, x))
    /\ UNCHANGED <<digest, isProver, k, s, elements, r, origin, xs, rs>>

(* Accumulator::len *)
AccLen ==
    /\ res' = Call("len", Zero, 0, 0, <<>>, Zero, Returned(k))
    /\ UNCHANGED <<digest, isProver, k, s, elements, r, origin, xs, rs>>

(* Accumulator::get_root *)
GetRoot ==
    /\ res' = Call("get_root", Zero, 0, 0, <<>>, Zero, Returned(get_root(s, k)))
    /\ UNCHANGED <<digest, isProver, k, s, elements, r, origin, xs, rs>>

(* the slot handed out is left holding the default digest *)
GetState_take(i) ==
    /\ res' = Call("get_state", Zero, i, 0, <<>>, Zero, Returned(get_state(s, i)))
    /\ s' = IF i = 0 THEN s ELSE [s EXCEPT ![trailing_zeros(i)] = Zero]
    /\ UNCHANGED <<digest, isProver, k, elements, r, origin, xs, rs>>

(* Accumulator::get_state *)
GetState(i) ==
    /\ res' = Call("get_state", Zero, i, 0, <<>>, Zero, Returned(get_state(s, i)))
    /\ UNCHANGED <<digest, isProver, k, s, elements, r, origin, xs, rs>>

(* Accumulator::state_len *)
StateLen ==
    /\ res' = Call("state_len", Zero, 0, 0, <<>>, Zero, Returned(state_len(s)))
    /\ UNCHANGED <<digest, isProver, k, s, elements, r, origin, xs, rs>>

(* utils::highest_divisor_power_of_2 *)
HighestDivisorPowerOf2(n) ==
    /\ res' = Call("highest_divisor_power_of_2", Zero, n, 0, <<>>, Zero,
                   IF highest_divisor_power_of_2(n) = Overflow
                   THEN Panic
                   ELSE Returned(highest_divisor_power_of_2(n)))
    /\ UNCHANGED <<digest, isProver, k, s, elements, r, origin, xs, rs>>

(* utils::pred *)
PredOf(n) ==
    /\ res' = Call("pred", Zero, n, 0, <<>>, Zero,
                   IF pred(n) = Overflow THEN Panic ELSE Returned(pred(n)))
    /\ UNCHANGED <<digest, isProver, k, s, elements, r, origin, xs, rs>>

----------------------------------------------------------------------------
(* Inputs of the calls.  The caller of verify holds the roots insert       *)
(* returned; the witnesses it passes are proofs the prover returned, as    *)
(* returned or altered, or any three digests it knows.  verify is static   *)
(* and prove_from(i, j) reads the maps at indices up to i only, so the     *)
(* altered witnesses are tried against the last root: an earlier root was  *)
(* the last root in an earlier state.                                      *)

Range(f) == {f[n] : n \in DOMAIN f}

Idx(bound) == 0 .. bound + 1

ValidPairs == {p \in (1 .. Len(rs)) \X (1 .. Len(rs)) : p[2] <= p[1]}

LastPairs == {p \in ValidPairs : p[1] = Len(rs)}

Pool == {Zero} \cup Elems \cup Range(rs)

Proof(i, j) == prove_from(elements, r, i, j)

Proved(pairs) == {p \in pairs : Proof(p[1], p[2]).tag = "Ok"}

Input(root, i, j, w, x) == [root |-> root, i |-> i, j |-> j, w |-> w, x |-> x]

AsReturned ==
    {Input(rs[p[1]], p[1], p[2], Proof(p[1], p[2]).wit, x) :
        p \in Proved(ValidPairs), x \in Elems}

Truncated ==
    UNION {{Input(rs[p[1]], p[1], p[2], SubSeq(Proof(p[1], p[2]).wit, 1, n), x) :
                n \in 0 .. Len(Proof(p[1], p[2]).wit) - 1, x \in Elems} :
           p \in Proved(ValidPairs)}

Replayed ==
    UNION {{Input(rs[p[1]], p[1], p[2], Proof(q[1], q[2]).wit, x) :
                q \in Proved(ValidPairs) \ {p}, x \in Elems} : p \in LastPairs}

Tampered ==
    UNION {{Input(rs[p[1]], p[1], p[2], [Proof(p[1], p[2]).wit EXCEPT ![n] = d], x) :
                n \in 1 .. Len(Proof(p[1], p[2]).wit), d \in Pool, x \in Elems} :
           p \in Proved(LastPairs)}

Extended ==
    UNION {{Input(rs[p[1]], p[1], p[2], Proof(p[1], p[2]).wit \o <<d>>, x) :
                d \in Pool, x \in Elems} : p \in Proved(LastPairs)}

AnyTriple ==
    UNION {{Input(rs[p[1]], p[1], p[2], <<a, b, c>>, x) :
                a \in Pool, b \in Pool, c \in Pool, x \in Elems} :
           p \in {q \in LastPairs : q[2] = q[1]}}

WrongRoot ==
    UNION {{Input(root, p[1], p[2], Proof(p[1], p[2]).wit, xs[p[2]]) :
                root \in Pool \ {rs[p[1]]}} : p \in Proved(ValidPairs)}

Padded ==
    UNION {{Input(rs[p[1]], p[1], p[2], Proof(p[1], p[2]).wit \o t, x) :
                t \in {<<Zero, Zero>>, <<Zero, Zero, Zero>>, Proof(p[1], p[2]).wit,
                       <<rs[p[1]], Zero, Zero, <<1>>>>},
                x \in Elems} : p \in Proved(LastPairs)}

LastReturned ==
    {Input(rs[p[1]], p[1], p[2], Proof(p[1], p[2]).wit, x) :
        p \in Proved(LastPairs), x \in Elems}

Misused(bound) ==
    {Input(Zero, i, j, <<>>, Zero) : i \in Idx(bound), j \in Idx(bound)}

VerifyInputs(bound) ==
    AsReturned \cup Truncated \cup Replayed \cup Tampered \cup Extended
    \cup AnyTriple \cup WrongRoot \cup Padded \cup Misused(bound)

ProveIdx(bound) == Idx(bound) \cup {StateSlots, StateSlots + 1}

Next ==
    \/ \E x \in Elems : AccInsert(MaxK, x)
    \/ ProverFrom
    \/ \E x \in Elems : ProverInsert(MaxK, x)
    \/ Query /\ \E i \in ProveIdx(MaxK), j \in ProveIdx(MaxK) : ProveFrom(i, j)
    \/ Query /\ \E j \in ProveIdx(MaxK) : Prove(j)
    \/ Query /\ \E c \in VerifyInputs(MaxK) : Verify(c.root, c.i, c.j, c.w, c.x)

Spec == Init /\ [][Next]_vars

(* Long histories: a prover created empty, proving from its current length *)
InitDeep == Init /\ isProver

NextDeep ==
    \/ \E x \in Elems : ProverInsert(DeepK, x)
    \/ Query /\ \E j \in Idx(DeepK) : ProveFrom(k, j)
    \/ Query /\ \E c \in LastReturned : Verify(c.root, c.i, c.j, c.w, c.x)

SpecDeep == InitDeep /\ [][NextDeep]_vars

(* Read-only calls interleaved freely with the inserts: every query is     *)
(* enabled in every state, after another query included.                   *)
NextReads ==
    \/ \E x \in Elems : AccInsert(ReadK, x)
    \/ \E x \in Elems : ProverInsert(ReadK, x)
    \/ AccLen
    \/ GetRoot
    \/ \E i \in Idx(ReadK) \cup {StateSlots} : GetState(i)
    \/ StateLen
    \/ isProver /\ \E i \in Idx(ReadK), j \in Idx(ReadK) : ProveFrom(i, j)
    \/ isProver /\ \E c \in AsReturned \cup Misused(ReadK) :
                       Verify(c.root, c.i, c.j, c.w, c.x)

SpecReads == Init /\ [][NextReads]_vars

(* The BitMath helpers applied to every word of the modelled width; the   *)
(* helpers are functions of the word alone, one call per behaviour.        *)
Words == 0 .. 2 ^ WordBits - 1

NextBits ==
    \/ res.op = "none" /\ \E n \in Words : HighestDivisorPowerOf2(n)
    \/ res.op = "none" /\ \E n \in Words : PredOf(n)

SpecBits == Init /\ [][NextBits]_vars

----------------------------------------------------------------------------
(* The history the claims are stated against, defined without the code's   *)
(* bit arithmetic.                                                         *)

Pow2 == {2 ^ e : e \in 0 .. WordBits}

LowBit(n) == CHOOSE p \in Pow2 : n % p = 0 /\ (n \div p) % 2 = 1

Tz(n) == CHOOSE e \in 0 .. WordBits : 2 ^ e = LowBit(n)

Pred(n) == n - LowBit(n)

RootAt(n) == IF n = 0 THEN Zero ELSE rs[n]

InRange(i, j) == 1 <= j /\ j <= i /\ i <= Len(rs)

FromEmpty == isProver /\ origin = 0

(* verify was called for an index pair of the history with the root the    *)
(* i-th insert returned                                                    *)
Anchored ==
    /\ res.op = "verify"
    /\ InRange(res.i, res.j)
    /\ res.root = rs[res.i]

IsProof(w, i, j) == Proof(i, j).tag = "Ok" /\ w = Proof(i, j).wit

IsProperPrefix(w, v) == Len(w) < Len(v) /\ w = SubSeq(v, 1, Len(w))

----------------------------------------------------------------------------
(* C1. Completeness: in a prover created empty and filled by inserts,      *)
(* prove_from(i, j) returns Ok(w) for every 1 <= j <= i <= k, and verify   *)
(* of that w against the root the i-th insert returned, with the element   *)
(* the j-th insert was given, returns Ok(()), also when inserts followed   *)
(* the i-th.                                                               *)
C1_Completeness ==
    FromEmpty =>
        /\ (res.op = "prove_from" /\ InRange(res.i, res.j)) => res.out.tag = "Ok"
        /\ (Anchored /\ IsProof(res.w, res.i, res.j) /\ res.x = xs[res.j])
               => res.out = Ok(<<>>)

C1_Witness ==
    /\ FromEmpty
    /\ Anchored
    /\ res.i = 3
    /\ res.j = 1
    /\ k = 4
    /\ IsProof(res.w, 3, 1)
    /\ Len(res.w) = 9
    /\ res.x = xs[1]
    /\ res.out = Ok(<<>>)

(* C2. Soundness against arbitrary witnesses: with a collision-free digest,*)
(* whatever witness and element verify is given for 1 <= j <= i <= k and   *)
(* the root the i-th insert returned, verify returns Ok(()) only if the    *)
(* element is the one the j-th insert was given.                           *)
C2_Soundness ==
    (digest = "free" /\ FromEmpty /\ Anchored /\ res.out.tag = "Ok")
        => res.x = xs[res.j]

C2_Witness ==
    /\ digest = "free"
    /\ FromEmpty
    /\ Anchored
    /\ res.i > res.j
    /\ ~IsProof(res.w, res.i, res.j)
    /\ res.out.tag = "Ok"

(* C3. Element substitution: verify of a witness prove_from(i, j) returned,*)
(* against the root of the i-th insert, with an element other than the one *)
(* the j-th insert was given, returns Err(XiMismatch).                     *)
C3_ElementSubstitution ==
    (FromEmpty /\ Anchored /\ IsProof(res.w, res.i, res.j) /\ res.x # xs[res.j])
        => res.out = Err("XiMismatch")

C3_Witness ==
    /\ FromEmpty
    /\ Anchored
    /\ res.i = 4
    /\ res.j = 1
    /\ digest = "weak"
    /\ IsProof(res.w, 4, 1)
    /\ res.x # xs[1]
    /\ res.out = Err("XiMismatch")

(* C4. The compact accumulator refines the full-history definition of the  *)
(* roots: the root the n-th insert returned is H(x_n || r_(n-1) ||         *)
(* r_pred(n)), r_0 the zero digest, pred(n) = n - lowbit(n).               *)
C4_RootRefinement ==
    \A n \in 1 .. Len(rs) :
        rs[n] = Hash(digest, xs[n], RootAt(n - 1), RootAt(Pred(n)))

C4_Witness ==
    /\ digest = "free"
    /\ res.op = "insert"
    /\ k = 7
    /\ res.out = Returned(<<xs[7], rs[6], rs[6]>>)
    /\ rs[6] = <<xs[6], rs[5], rs[4]>>
    /\ rs[6] # rs[2]

(* C5. State slots: after k inserts every slot p that some index           *)
(* 1 <= n <= k with trailing_zeros(n) = p has written holds the root of    *)
(* the largest such index; and for every bit p set in k, get_state(m) is   *)
(* the root of m, m being k with the bits below p cleared.                 *)
LastAtItsSlot(n) == \A m \in n + 1 .. k : Tz(m) # Tz(n)

ClearBelow(n, p) == n - (n % (2 ^ p))

C5_StateSlot ==
    /\ \A n \in 1 .. k : LastAtItsSlot(n) => s[Tz(n)] = rs[n]
    /\ \A p \in 0 .. WordBits - 1 :
           (k \div (2 ^ p)) % 2 = 1
               => get_state(s, ClearBelow(k, p)) = rs[ClearBelow(k, p)]

C5_Witness ==
    /\ digest = "free"
    /\ k = 6
    /\ s[0] = rs[5]
    /\ s[1] = rs[6]
    /\ s[2] = rs[4]
    /\ get_state(s, 4) = rs[4]
    /\ s[3] = Zero

(* C6. Prover history: in every prover, created by default() or from an    *)
(* accumulator of any length, the element map and the root map have        *)
(* domain 0 .. len(), hold the zero digest at 0, and at n the element the  *)
(* n-th insert was given and the root it returned.                         *)
C6_ProverHistory ==
    isProver =>
        /\ DOMAIN elements = 0 .. k
        /\ DOMAIN r = 0 .. k
        /\ elements[0] = Zero
        /\ r[0] = Zero
        /\ \A n \in 1 .. k : elements[n] = xs[n] /\ r[n] = rs[n]

(* C7. Witness length: for 1 <= j <= i <= k the witness prove_from(i, j)   *)
(* returns has a length that is a multiple of 3 and at most                *)
(* 3 * (floor(log2 i) + popcount(i) + 1).                                  *)
RECURSIVE PopCount(_)
PopCount(n) == IF n = 0 THEN 0 ELSE (n % 2) + PopCount(n \div 2)

RECURSIVE FloorLog2(_)
FloorLog2(n) == IF n <= 1 THEN 0 ELSE 1 + FloorLog2(n \div 2)

LogBound(i) == 3 * (FloorLog2(i) + PopCount(i) + 1)

Proving == FromEmpty /\ res.op = "prove_from" /\ InRange(res.i, res.j)

C7_WitnessLength ==
    Proving =>
        /\ res.out.tag = "Ok"
        /\ Len(res.out.wit) % 3 = 0
        /\ Len(res.out.wit) <= LogBound(res.i)

(* C7 as amended: the length is a multiple of 3, at least 3 and at most    *)
(* 3 * (i - j + 1); it is within 3 * (floor(log2 i) + popcount(i) + 1)     *)
(* for every i <= 7.                                                       *)
C7_WitnessLengthAmended ==
    Proving =>
        /\ res.out.tag = "Ok"
        /\ Len(res.out.wit) % 3 = 0
        /\ Len(res.out.wit) >= 3
        /\ Len(res.out.wit) <= 3 * (res.i - res.j + 1)
        /\ res.i <= 7 => Len(res.out.wit) <= LogBound(res.i)

C7_Witness ==
    /\ Proving
    /\ res.i = 8
    /\ res.j = 1
    /\ res.out.tag = "Ok"
    /\ Len(res.out.wit) = 21
    /\ LogBound(8) = 15

(* C8. prove(j) returns what prove_from(len(), j) returns, for a prover    *)
(* with len() >= 1 and any j.                                              *)
C8_ProveFromLen ==
    (isProver /\ res.op = "prove" /\ k >= 1)
        => res.out = prove_from(elements, r, k, res.j)

(* C9. Target index 0: prove_from(i, 0) returns Err(OutOfBounds) for every *)
(* i >= 0; it returns no witness and does not panic.                       *)
C9_TargetZero ==
    (res.op = "prove_from" /\ res.j = 0) => res.out = Err("OutOfBounds")

(* C10. Truncation: verify of a proper prefix of a witness                 *)
(* prove_from(i, j) returned, against the root of the i-th insert and with *)
(* the element of the j-th, returns Err(WitnessTooShort).                  *)
C10_Truncation ==
    (/\ FromEmpty
     /\ Anchored
     /\ Proof(res.i, res.j).tag = "Ok"
     /\ IsProperPrefix(res.w, Proof(res.i, res.j).wit)
     /\ res.x = xs[res.j])
        => res.out = Err("WitnessTooShort")

C10_Witness ==
    /\ FromEmpty
    /\ Anchored
    /\ res.i = 4
    /\ res.j = 1
    /\ Len(Proof(4, 1).wit) = 12
    /\ IsProperPrefix(res.w, Proof(4, 1).wit)
    /\ Len(res.w) = 10
    /\ res.x = xs[1]
    /\ res.out = Err("WitnessTooShort")

(* C11. Root and triple mismatch: with a collision-free digest, verify of  *)
(* a witness prove_from(i, j) returned ends in Err(RiMismatch) when the    *)
(* root given is any value other than the root of the i-th insert, and     *)
(* when one element of the first triple is replaced by another value and   *)
(* the root is the one of the i-th insert.                                 *)
FirstTripleReplaced(w, v) ==
    /\ Len(w) = Len(v)
    /\ \E n \in 1 .. 3 : w[n] # v[n] /\ w = [v EXCEPT ![n] = w[n]]

C11_RootMismatch ==
    (/\ digest = "free"
     /\ FromEmpty
     /\ res.op = "verify"
     /\ InRange(res.i, res.j)
     /\ Proof(res.i, res.j).tag = "Ok")
        => /\ (res.root # rs[res.i] /\ res.w = Proof(res.i, res.j).wit)
                  => res.out = Err("RiMismatch")
           /\ (res.root = rs[res.i] /\ FirstTripleReplaced(res.w, Proof(res.i, res.j).wit))
                  => res.out = Err("RiMismatch")

C11_Witness ==
    /\ digest = "free"
    /\ FromEmpty
    /\ Anchored
    /\ res.i = 4
    /\ res.j = 2
    /\ FirstTripleReplaced(res.w, Proof(4, 2).wit)
    /\ res.w[2] # Proof(4, 2).wit[2]
    /\ res.x = xs[2]
    /\ res.out = Err("RiMismatch")

(* C12. Append-only: with a collision-free digest the root each insert     *)
(* returns differs from the zero digest and from the root of every earlier *)
(* insert, whatever the elements, repeated ones included.                  *)
C12_AppendOnly ==
    digest = "free" =>
        \A n \in 1 .. Len(rs) :
            /\ rs[n] # Zero
            /\ \A m \in 1 .. n - 1 : rs[m] # rs[n]

C12_Witness ==
    /\ digest = "free"
    /\ res.op = "insert"
    /\ k = 8
    /\ \A n \in 1 .. 8 : xs[n] = Zero
    /\ \A n \in 1 .. 8 : rs[n] # Zero /\ \A m \in 1 .. n - 1 : rs[m] # rs[n]

(* C13. Root determinism: the read-only calls (len, get_root, get_state,   *)
(* state_len, prove_from, verify) leave k, s, the two maps and the history *)
(* unchanged whatever they return, and every insert returns the root, and  *)
(* leaves the length and the slots, that the same insert gives on a twin   *)
(* accumulator built by from_elements from the same elements with no       *)
(* read-only call in between.                                              *)
ReadOps == {"len", "get_root", "get_state", "state_len", "prove_from", "verify"}

Twin == from_elements(digest, xs)

C13_RootDeterminism ==
    [][/\ res'.op \in ReadOps => UNCHANGED <<k, s, elements, r, xs, rs>>
       /\ res'.op = "insert" =>
              LET a == insert(digest, Twin.k, Twin.s, res'.x)
              IN  /\ res'.out = Returned(a.result)
                  /\ k' = a.k
                  /\ s' = a.s]_vars

C13_Witness ==
    /\ res.op = "verify"
    /\ res.out = Err("XiMismatch")
    /\ k = ReadK
    /\ origin = 0
    /\ k = Twin.k
    /\ s = Twin.s
    /\ rs[ReadK] = get_root(Twin.s, Twin.k)

(* C14. Current root: in every reachable state get_root() is a value, not  *)
(* None, equal to get_state(len()); it is the zero digest when no insert   *)
(* has happened and the root the most recent insert returned otherwise.    *)
C14_CurrentRoot ==
    /\ get_root(s, k) # None
    /\ get_root(s, k) = get_state(s, k)
    /\ get_root(s, k) = IF Len(rs) = 0 THEN Zero ELSE rs[Len(rs)]
    /\ res.op = "get_root" => res.out = Returned(RootAt(Len(rs)))

C14_Witness ==
    /\ res.op = "get_root"
    /\ Len(rs) = 3
    /\ res.out = Returned(rs[3])
    /\ rs[3] # Zero

(* C15. Missing history: on a prover built from empty by k inserts,        *)
(* prove_from(i, j) with 1 <= j <= i and i > k returns                     *)
(* Err(MissingHistory(i)) and no witness, and prove_from(i, j) with j > i  *)
(* returns Err(OutOfBounds) whether or not i is in the history.            *)
C15_MissingHistory ==
    (FromEmpty /\ res.op = "prove_from")
        => /\ (1 <= res.j /\ res.j <= res.i /\ res.i > k)
                  => res.out = MissingHistory(res.i) /\ res.out.wit = <<>>
           /\ res.j > res.i => res.out = Err("OutOfBounds")

C15_Witness ==
    /\ FromEmpty
    /\ res.op = "prove_from"
    /\ k = 3
    /\ res.i = 4
    /\ res.j = 2
    /\ res.out = MissingHistory(4)

(* C16. Insert reads no stale or unwritten slot: in an insert from length  *)
(* k each of the two indices looked up, k and (k + 1) - lowbit(k + 1), is  *)
(* 0 or an index whose slot p has bit p set in k, has been written and     *)
(* holds the root of that index; neither unwrap fails, and no insert has   *)
(* an error outcome.                                                       *)
InsertLookups ==
    {(k + 1) - 1, u256_sub(k + 1, highest_divisor_power_of_2(k + 1))}

C16_InsertLookups ==
    /\ \A m \in InsertLookups :
           \/ m = 0
           \/ /\ m \in 1 .. k
              /\ (k \div (2 ^ trailing_zeros(m))) % 2 = 1
              /\ \E n \in 1 .. k : Tz(n) = trailing_zeros(m)
              /\ get_state(s, m) = rs[m]
    /\ \A x \in Elems : ~insert(digest, k, s, x).panic
    /\ res.op = "insert" => res.out.tag = "Ok"

C16_Witness ==
    /\ res.op = "insert"
    /\ k = 6
    /\ digest = "free"
    /\ res.out = Returned(<<xs[6], rs[5], rs[4]>>)
    /\ s[0] = rs[5]
    /\ s[2] = rs[4]
    /\ InsertLookups = {6}

(* C17. Recursion variant: in a call of verify or prove_from with          *)
(* 1 <= j <= i every nested call has an index i' with j <= i' < i, equal   *)
(* to pred(i) when pred(i) >= j and to i - 1 otherwise; the assert j <= i  *)
(* does not fail and no subtraction overflows, and the nesting ends at     *)
(* index j within i - j + 1 levels.                                        *)
C17_RecursionVariant ==
    (res.op \in {"verify", "prove_from"} /\ 1 <= res.j /\ res.j <= res.i)
        => LET c == descent(res.i, res.j)
           IN  /\ c[1] = res.i
               /\ c[Len(c)] = res.j
               /\ Len(c) <= res.i - res.j + 1
               /\ \A n \in 1 .. Len(c) - 1 :
                      /\ res.j <= c[n + 1]
                      /\ c[n + 1] < c[n]
                      /\ c[n + 1] = IF Pred(c[n]) >= res.j THEN Pred(c[n]) ELSE c[n] - 1
               /\ res.out.tag # "Panic"
               /\ (res.op = "prove_from" /\ res.out.tag = "Ok")
                      => Len(res.out.wit) = 3 * Len(c)
               /\ (res.op = "verify" /\ res.out.tag = "Ok")
                      => Len(res.w) >= 3 * Len(c)

C17_Witness ==
    /\ res.op = "verify"
    /\ res.i = 4
    /\ res.j = 1
    /\ descent(4, 1) = <<4, 3, 2, 1>>
    /\ Len(res.w) = 12
    /\ res.out.tag = "Ok"

(* C18. Witness structure: for 1 <= j <= i <= k the witness prove_from(i,  *)
(* j) returns is the concatenation of the triples (x_n, r_(n-1),           *)
(* r_pred(n)) for n along the path from i that steps to pred(n) when       *)
(* pred(n) >= j and to n - 1 otherwise and ends at j; each triple hashes   *)
(* to r_n; and verify, following the same path, accepts these triples      *)
(* against the root of i with the element of j.                            *)
RECURSIVE PathFrom(_, _)
PathFrom(i, j) ==
    IF i = j THEN <<j>>
    ELSE <<i>> \o PathFrom(IF Pred(i) >= j THEN Pred(i) ELSE i - 1, j)

RECURSIVE TriplesAlong(_)
TriplesAlong(path) ==
    IF path = <<>> THEN <<>>
    ELSE <<xs[path[1]], RootAt(path[1] - 1), RootAt(Pred(path[1]))>>
             \o TriplesAlong(Tail(path))

C18_WitnessStructure ==
    /\ Proving =>
           /\ res.out = Ok(TriplesAlong(PathFrom(res.i, res.j)))
           /\ \A t \in 1 .. Len(PathFrom(res.i, res.j)) :
                  Hash(digest, res.out.wit[3 * t - 2], res.out.wit[3 * t - 1],
                       res.out.wit[3 * t]) = rs[PathFrom(res.i, res.j)[t]]
    /\ (FromEmpty /\ Anchored /\ res.w = TriplesAlong(PathFrom(res.i, res.j))
           /\ res.x = xs[res.j])
           => res.out = Ok(<<>>)

C18_Witness ==
    /\ Proving
    /\ digest = "free"
    /\ res.i = 6
    /\ res.j = 1
    /\ PathFrom(6, 1) = <<6, 4, 3, 2, 1>>
    /\ res.out = Ok(TriplesAlong(<<6, 4, 3, 2, 1>>))
    /\ Len(res.out.wit) = 15

(* C19. Trailing witness elements are ignored: when verify returns Ok(())  *)
(* for a witness it returns Ok(()) for that witness followed by any extra  *)
(* elements, and what it returns depends on the first 3 * (path length)    *)
(* elements only.                                                          *)
C19_TrailingIgnored ==
    res.op = "verify" =>
        /\ (\E n \in 0 .. Len(res.w) - 1 :
               verify(digest, res.root, res.i, res.j, SubSeq(res.w, 1, n), res.x)
                   = Ok(<<>>))
               => res.out = Ok(<<>>)
        /\ (1 <= res.j /\ res.j <= res.i
               /\ Len(res.w) >= 3 * Len(descent(res.i, res.j)))
               => res.out = verify(digest, res.root, res.i, res.j,
                                   SubSeq(res.w, 1, 3 * Len(descent(res.i, res.j))),
                                   res.x)

C19_Witness ==
    /\ FromEmpty
    /\ Anchored
    /\ res.i = 4
    /\ res.j = 2
    /\ Len(res.w) = 18
    /\ IsProof(SubSeq(res.w, 1, 9), 4, 2)
    /\ res.x = xs[2]
    /\ res.out = Ok(<<>>)

(* C20. BitMath identities: for every n >= 1,                              *)
(* highest_divisor_power_of_2(n) = 2^trailing_zeros(n),                    *)
(* pred(n) + highest_divisor_power_of_2(n) = n, pred(n) < n, and           *)
(* pred(n) = 0 exactly when n is a power of two; and                       *)
(* highest_divisor_power_of_2(0) returns 0.                                *)
BitMathFrom1 ==
    /\ (res.op = "highest_divisor_power_of_2" /\ res.i >= 1)
           => res.out = Returned(2 ^ trailing_zeros(res.i))
    /\ (res.op = "pred" /\ res.i >= 1)
           => /\ res.out.tag = "Ok"
              /\ res.out.wit[1] + highest_divisor_power_of_2(res.i) = res.i
              /\ res.out.wit[1] = res.i - LowBit(res.i)
              /\ res.out.wit[1] < res.i
              /\ res.out.wit[1] = 0 <=> res.i \in Pow2

C20_BitMath ==
    /\ BitMathFrom1
    /\ (res.op = "highest_divisor_power_of_2" /\ res.i = 0)
           => res.out = Returned(0)

====
